---- MODULE Spec2Model ----
(***************************************************************************)
(* Model of the regex-to-NFA builder of ov_lexical_analysis (src/nfa.rs):  *)
(* the id allocator, the state graph, the NFA combinators and the          *)
(* two-stack scan of NFA::new_from_token.                                  *)
(***************************************************************************)
EXTENDS Integers, Sequences, FiniteSets, TLC

VARIABLES
    pattern,        \* token.value, a sequence of one-character strings
    token,          \* the wrapped text "(" + value + ")"
    idx,            \* 0-based index of the character the scan is at
    symbol_stack,   \* Vec<Symbol>
    nfa_stack,      \* Vec<NFA>
    heap,           \* the State objects behind the Arc pointers, by id
    next_id,        \* IDAllocatorInner.next_id
    pc,             \* position of the build: scan / done / abort
    result,         \* the NFA returned by new_from_token
    lock,           \* holder of IDAllocator.inner (0 = unlocked)
    tpc,            \* position of each thread inside IDAllocator::next
    tid,            \* the local `id` of each thread's call in progress
    owned,          \* ids each thread's State::new calls have received
    order,          \* ids in the order the calls took the lock
    reductions,     \* history: merge_other calls made by handle_symbol in this build
    self_nfa,       \* the NFA a combinator is called on (`self`)
    other_value,    \* token.value of the pattern that `other` is built from
    phase,          \* single build / building self / building other / combined
    combined        \* `self` after connect_other or merge_other

vars == <<pattern, token, idx, symbol_stack, nfa_stack, heap, next_id, pc,
          result, lock, tpc, tid, owned, order, reductions, self_nfa,
          other_value, phase, combined>>

buildVars == <<pattern, token, idx, symbol_stack, nfa_stack, heap, pc, result,
               reductions>>
pairVars == <<self_nfa, other_value, phase, combined>>
threadVars == <<lock, tpc, tid, owned, order>>

----------------------------------------------------------------------------
(* Bounds *)

MaxLen == 5
NumThreads == 2
MaxCalls == 3

Threads == 1..NumThreads

----------------------------------------------------------------------------
(* Input patterns *)

Alphabet == {"a", "b", "(", ")", "|", "*"}

Examples ==
    { <<"a","a","a","a","|","b","b","b","d","|","c","c">>,
      <<"a","|","b","|","c">>,
      <<"(","a","b","|","c","d",")">>,
      <<"(","a","|","b",")","c">>,
      <<"(","a",")","(","b",")">>,
      <<"a","|","(","b",")">>,
      <<"[","0","-","9","]","+">>,
      <<"a","|","|","b">> }

Patterns == (UNION {[1..k -> Alphabet] : k \in 0..MaxLen}) \cup Examples

----------------------------------------------------------------------------
(* Symbol, Transition, State, NFA *)

LeftParen == "LeftParen"
Or == "Or"

Epsilon == <<"Epsilon">>
Char(c) == <<"Char", c>>

StateInnerNew(accepting) == [transitions |-> <<>>, accepting |-> accepting]

AddTransition(h, from, trans, to) ==
    [h EXCEPT ![from].transitions = Append(@, <<trans, to>>)]

\* State::new: one ID_ALLOCATOR.next() call and a fresh StateInner.
\* Returns the new heap, the id, and the allocator's next value.
StateNew(h, n, accepting) ==
    [heap |-> (n :> StateInnerNew(accepting)) @@ h, id |-> n, next |-> n + 1]

NoNFA == [states |-> <<>>, initial |-> -1]

NFANew_Accepting(h, n) ==
    LET s == StateNew(h, n, TRUE)
    IN  [nfa |-> [states |-> <<s.id>>, initial |-> s.id],
         heap |-> s.heap, next |-> s.next]

NFANew(h, n) ==
    LET s == StateNew(h, n, FALSE)
    IN  [nfa |-> [states |-> <<s.id>>, initial |-> s.id],
         heap |-> s.heap, next |-> s.next]

AddState(nfa, h, n, accepting) ==
    LET s == StateNew(h, n, accepting)
    IN  [nfa |-> [nfa EXCEPT !.states = Append(@, s.id)],
         heap |-> s.heap, next |-> s.next, id |-> s.id]

ConnectOther_KeepAccepting(self, other, h) ==
    LET tails == {self.states[i] : i \in {j \in 1..Len(self.states) :
                                            h[self.states[j]].accepting}}
    IN  [nfa |-> [self EXCEPT !.states = @ \o other.states],
         heap |-> [q \in DOMAIN h |->
                      IF q \in tails
                      THEN [h[q] EXCEPT !.transitions =
                                           Append(@, <<Epsilon, other.initial>>)]
                      ELSE h[q]]]

\* NFA::connect_other: self's accepting states lose the flag and gain an
\* Epsilon transition to other.initial; other's states are appended
ConnectOther(self, other, h) ==
    LET tails == {self.states[i] : i \in {j \in 1..Len(self.states) :
                                            h[self.states[j]].accepting}}
    IN  [nfa |-> [self EXCEPT !.states = @ \o other.states],
         heap |-> [q \in DOMAIN h |->
                      IF q \in tails
                      THEN [accepting |-> FALSE,
                            transitions |-> Append(h[q].transitions,
                                                   <<Epsilon, other.initial>>)]
                      ELSE h[q]]]

MergeOther_NoExtend(self, other, h, n) ==
    LET a  == AddState(self, h, n, FALSE)
        h1 == AddTransition(a.heap, a.id, Epsilon, self.initial)
        h2 == AddTransition(h1, a.id, Epsilon, other.initial)
    IN  [nfa |-> [states |-> a.nfa.states, initial |-> a.id],
         heap |-> h2, next |-> a.next]

MergeOther_DropOther(self, other, h, n) ==
    LET a  == AddState(self, h, n, FALSE)
        h1 == AddTransition(a.heap, a.id, Epsilon, self.initial)
    IN  [nfa |-> [states |-> a.nfa.states \o other.states, initial |-> a.id],
         heap |-> h1, next |-> a.next]

MergeOther_KeepInitial(self, other, h, n) ==
    LET a  == AddState(self, h, n, FALSE)
        h1 == AddTransition(a.heap, a.id, Epsilon, self.initial)
        h2 == AddTransition(h1, a.id, Epsilon, other.initial)
    IN  [nfa |-> [states |-> a.nfa.states \o other.states, initial |-> self.initial],
         heap |-> h2, next |-> a.next]

MergeOther(self, other, h, n) ==
    LET a  == AddState(self, h, n, FALSE)
        h1 == AddTransition(a.heap, a.id, Epsilon, self.initial)
        h2 == AddTransition(h1, a.id, Epsilon, other.initial)
    IN  [nfa |-> [states |-> a.nfa.states \o other.states, initial |-> a.id],
         heap |-> h2, next |-> a.next]

----------------------------------------------------------------------------
(* NFA::new_from_token *)

Wrap(value) == <<"(">> \o value \o <<")">>

Nth(s, n) == s[n + 1]

Top(st) == st[Len(st)]
Pop(st) == SubSeq(st, 1, Len(st) - 1)

EndsTerm_Always(next_c) == TRUE

\* the accepting flag given to state2
EndsTerm(next_c) == next_c = "|" \/ next_c = ")"

Init ==
    /\ pattern \in Patterns
    /\ token = Wrap(pattern)
    /\ idx = 0
    /\ symbol_stack = <<>>
    /\ nfa_stack = <<>>
    /\ heap = <<>>
    /\ next_id = 0
    /\ pc = "scan"
    /\ result = NoNFA
    /\ lock = 0
    /\ tpc = [t \in Threads |-> "idle"]
    /\ tid = [t \in Threads |-> -1]
    /\ owned = [t \in Threads |-> {}]
    /\ order = <<>>
    /\ reductions = 0
    /\ self_nfa = NoNFA
    /\ other_value = <<>>
    /\ phase = "single"
    /\ combined = NoNFA

AtChar == pc = "scan" /\ idx < Len(token)

\* '(' arm
ScanLeftParen ==
    /\ AtChar /\ Nth(token, idx) = "("
    /\ LET n == NFANew(heap, next_id)
       IN  /\ symbol_stack' = Append(symbol_stack, LeftParen)
           /\ nfa_stack' = Append(nfa_stack, n.nfa)
           /\ heap' = n.heap
           /\ next_id' = n.next
    /\ idx' = idx + 1
    /\ UNCHANGED <<pattern, token, pc, result, reductions>>
    /\ UNCHANGED threadVars
    /\ UNCHANGED pairVars

ScanOr_NoOperand ==
    /\ AtChar /\ Nth(token, idx) = "|"
    /\ symbol_stack' = Append(symbol_stack, Or)
    /\ idx' = idx + 1
    /\ UNCHANGED <<pattern, token, nfa_stack, heap, next_id, pc, result, reductions>>
    /\ UNCHANGED threadVars
    /\ UNCHANGED pairVars

\* '|' arm
ScanOr ==
    /\ AtChar /\ Nth(token, idx) = "|"
    /\ LET n == NFANew(heap, next_id)
       IN  /\ symbol_stack' = Append(symbol_stack, Or)
           /\ nfa_stack' = Append(nfa_stack, n.nfa)
           /\ heap' = n.heap
           /\ next_id' = n.next
    /\ idx' = idx + 1
    /\ UNCHANGED <<pattern, token, pc, result, reductions>>
    /\ UNCHANGED threadVars
    /\ UNCHANGED pairVars

\* ')' arm, loop test on an empty operator stack: symbol_stack.last().unwrap()
CloseAbort ==
    /\ AtChar /\ Nth(token, idx) = ")"
    /\ symbol_stack = <<>>
    /\ pc' = "abort"
    /\ UNCHANGED <<pattern, token, idx, symbol_stack, nfa_stack, heap, next_id, result,
                   reductions>>
    /\ UNCHANGED threadVars
    /\ UNCHANGED pairVars

HandleSymbol_Peek ==
    /\ AtChar /\ Nth(token, idx) = ")"
    /\ symbol_stack # <<>>
    /\ Top(symbol_stack) # LeftParen
    /\ IF Len(nfa_stack) < 2
       THEN /\ pc' = "abort"
            /\ symbol_stack' = symbol_stack
            /\ nfa_stack' = <<>>
            /\ UNCHANGED <<heap, next_id, reductions>>
       ELSE LET symbol == Top(symbol_stack)
                nfa1 == nfa_stack[Len(nfa_stack)]
                nfa2 == nfa_stack[Len(nfa_stack) - 1]
                rest == SubSeq(nfa_stack, 1, Len(nfa_stack) - 2)
                m == MergeOther(nfa1, nfa2, heap, next_id)
            IN  /\ symbol_stack' = symbol_stack
                /\ IF symbol = Or
                   THEN /\ nfa_stack' = Append(rest, m.nfa)
                        /\ heap' = m.heap
                        /\ next_id' = m.next
                        /\ reductions' = reductions + 1
                   ELSE /\ nfa_stack' = rest
                        /\ UNCHANGED <<heap, next_id, reductions>>
                /\ pc' = pc
    /\ UNCHANGED <<pattern, token, idx, result>>
    /\ UNCHANGED threadVars
    /\ UNCHANGED pairVars

\* ')' arm, one iteration of the while loop: handle_symbol
HandleSymbol ==
    /\ AtChar /\ Nth(token, idx) = ")"
    /\ symbol_stack # <<>>
    /\ Top(symbol_stack) # LeftParen
    /\ IF Len(nfa_stack) < 2
       THEN /\ pc' = "abort"
            /\ symbol_stack' = Pop(symbol_stack)
            /\ nfa_stack' = <<>>
            /\ UNCHANGED <<heap, next_id, reductions>>
       ELSE LET symbol == Top(symbol_stack)
                nfa1 == nfa_stack[Len(nfa_stack)]
                nfa2 == nfa_stack[Len(nfa_stack) - 1]
                rest == SubSeq(nfa_stack, 1, Len(nfa_stack) - 2)
                m == MergeOther(nfa1, nfa2, heap, next_id)
            IN  /\ symbol_stack' = Pop(symbol_stack)
                /\ IF symbol = Or
                   THEN /\ nfa_stack' = Append(rest, m.nfa)
                        /\ heap' = m.heap
                        /\ next_id' = m.next
                        /\ reductions' = reductions + 1
                   ELSE /\ nfa_stack' = rest
                        /\ UNCHANGED <<heap, next_id, reductions>>
                /\ pc' = pc
    /\ UNCHANGED <<pattern, token, idx, result>>
    /\ UNCHANGED threadVars
    /\ UNCHANGED pairVars

CloseGroup_PopsOperand ==
    /\ AtChar /\ Nth(token, idx) = ")"
    /\ symbol_stack # <<>>
    /\ Top(symbol_stack) = LeftParen
    /\ symbol_stack' = Pop(symbol_stack)
    /\ nfa_stack' = Pop(nfa_stack)
    /\ idx' = idx + 1
    /\ UNCHANGED <<pattern, token, heap, next_id, pc, result, reductions>>
    /\ UNCHANGED threadVars
    /\ UNCHANGED pairVars

\* ')' arm, after the loop: symbol_stack.pop()
CloseGroup ==
    /\ AtChar /\ Nth(token, idx) = ")"
    /\ symbol_stack # <<>>
    /\ Top(symbol_stack) = LeftParen
    /\ symbol_stack' = Pop(symbol_stack)
    /\ idx' = idx + 1
    /\ UNCHANGED <<pattern, token, nfa_stack, heap, next_id, pc, result, reductions>>
    /\ UNCHANGED threadVars
    /\ UNCHANGED pairVars

ScanLiteral_FromInitial ==
    /\ AtChar /\ Nth(token, idx) \notin {"(", ")", "|"}
    /\ IF nfa_stack = <<>> \/ idx + 1 >= Len(token)
       THEN /\ pc' = "abort"
            /\ UNCHANGED <<idx, nfa_stack, heap, next_id>>
       ELSE LET c == Nth(token, idx)
                nfa == Top(nfa_stack)
                last_state == nfa.initial
                s1 == AddState(nfa, heap, next_id, FALSE)
                next_c == Nth(token, idx + 1)
                s2 == AddState(s1.nfa, s1.heap, s1.next, EndsTerm(next_c))
                h1 == AddTransition(s2.heap, last_state, Epsilon, s1.id)
                h2 == AddTransition(h1, s1.id, Char(c), s2.id)
            IN  /\ nfa_stack' = Append(Pop(nfa_stack), s2.nfa)
                /\ heap' = h2
                /\ next_id' = s2.next
                /\ idx' = idx + 1
                /\ pc' = pc
    /\ UNCHANGED <<pattern, token, symbol_stack, result, reductions>>
    /\ UNCHANGED threadVars
    /\ UNCHANGED pairVars

\* any other character
ScanLiteral ==
    /\ AtChar /\ Nth(token, idx) \notin {"(", ")", "|"}
    /\ IF nfa_stack = <<>> \/ idx + 1 >= Len(token)
       THEN /\ pc' = "abort"
            /\ UNCHANGED <<idx, nfa_stack, heap, next_id>>
       ELSE LET c == Nth(token, idx)
                nfa == Top(nfa_stack)
                last_state == nfa.states[Len(nfa.states)]
                s1 == AddState(nfa, heap, next_id, FALSE)
                next_c == Nth(token, idx + 1)
                s2 == AddState(s1.nfa, s1.heap, s1.next, EndsTerm(next_c))
                h1 == AddTransition(s2.heap, last_state, Epsilon, s1.id)
                h2 == AddTransition(h1, s1.id, Char(c), s2.id)
            IN  /\ nfa_stack' = Append(Pop(nfa_stack), s2.nfa)
                /\ heap' = h2
                /\ next_id' = s2.next
                /\ idx' = idx + 1
                /\ pc' = pc
    /\ UNCHANGED <<pattern, token, symbol_stack, result, reductions>>
    /\ UNCHANGED threadVars
    /\ UNCHANGED pairVars

Return_Bottom ==
    /\ pc = "scan" /\ idx = Len(token)
    /\ IF nfa_stack = <<>>
       THEN /\ pc' = "abort"
            /\ UNCHANGED <<nfa_stack, result>>
       ELSE /\ result' = nfa_stack[1]
            /\ nfa_stack' = Pop(nfa_stack)
            /\ pc' = "done"
    /\ UNCHANGED <<pattern, token, idx, symbol_stack, heap, next_id, reductions>>
    /\ UNCHANGED threadVars
    /\ UNCHANGED pairVars

\* nfa_stack.pop().unwrap()
Return ==
    /\ pc = "scan" /\ idx = Len(token)
    /\ IF nfa_stack = <<>>
       THEN /\ pc' = "abort"
            /\ UNCHANGED <<nfa_stack, result>>
       ELSE /\ result' = Top(nfa_stack)
            /\ nfa_stack' = Pop(nfa_stack)
            /\ pc' = "done"
    /\ UNCHANGED <<pattern, token, idx, symbol_stack, heap, next_id, reductions>>
    /\ UNCHANGED threadVars
    /\ UNCHANGED pairVars

Next ==
    \/ ScanLeftParen
    \/ ScanOr
    \/ CloseAbort
    \/ HandleSymbol
    \/ CloseGroup
    \/ ScanLiteral
    \/ Return

Spec == Init /\ [][Next]_vars

MaxLiveLen == 4

\* the builds whose termination is checked
InitLive == Init /\ (Len(pattern) <= MaxLiveLen \/ pattern \in Examples)

\* one call runs to its return or its panic without waiting on anything
SpecLive == InitLive /\ [][Next]_vars /\ WF_vars(Next)

----------------------------------------------------------------------------
(* Acceptance: what an NFA accepts, by its graph and by simulation *)

RECURSIVE LangFrom(_, _)
\* labels of the paths from state q to an accepting state
LangFrom(h, q) ==
    (IF h[q].accepting THEN {<<>>} ELSE {})
    \cup UNION { LET t == h[q].transitions[i]
                 IN  IF t[1] = Epsilon
                     THEN LangFrom(h, t[2])
                     ELSE {<<t[1][2]>> \o s : s \in LangFrom(h, t[2])}
               : i \in 1..Len(h[q].transitions) }

Lang(nfa) == LangFrom(heap, nfa.initial)

Targets(h, q, trans) ==
    { h[q].transitions[i][2] :
        i \in {j \in 1..Len(h[q].transitions) : h[q].transitions[j][1] = trans} }

RECURSIVE EpsClosure(_, _)
EpsClosure(h, S) ==
    LET T == S \cup UNION {Targets(h, q, Epsilon) : q \in S}
    IN  IF T = S THEN S ELSE EpsClosure(h, T)

RECURSIVE Simulate(_, _, _)
Simulate(h, S, s) ==
    IF s = <<>> THEN S
    ELSE Simulate(h, EpsClosure(h, UNION {Targets(h, q, Char(Head(s))) : q \in S}),
                  Tail(s))

\* epsilon-closure simulation from the initial state
Accepts(nfa, s) ==
    \E q \in Simulate(heap, EpsClosure(heap, {nfa.initial}), s) : heap[q].accepting

AcceptingStates(nfa) ==
    {nfa.states[i] : i \in {j \in 1..Len(nfa.states) : heap[nfa.states[j]].accepting}}

ProperPrefixes(w) == {SubSeq(w, 1, k) : k \in 0..(Len(w) - 1)}

----------------------------------------------------------------------------
(* Shapes of patterns *)

Unsupported == {"[", "]", "*", "+", "?", "\\", "^", "$"}
Meta == {"(", ")", "|"}

IsLiteral(c) == c \notin Meta /\ c \notin Unsupported

\* a non-empty string of literal characters
IsWord(w) == Len(w) >= 1 /\ \A i \in 1..Len(w) : IsLiteral(w[i])

RECURSIVE Split(_)
\* the alternatives of a parenthesis-free text, cut at each '|'
Split(w) ==
    IF \E i \in 1..Len(w) : w[i] = "|"
    THEN LET i == CHOOSE i \in 1..Len(w) : w[i] = "|" /\ \A j \in 1..(i - 1) : w[j] # "|"
         IN  {SubSeq(w, 1, i - 1)} \cup Split(SubSeq(w, i + 1, Len(w)))
    ELSE {w}

NumBars(w) == Cardinality({i \in 1..Len(w) : w[i] = "|"})

\* w1|...|wk with every wi a non-empty literal string
IsAlternation(w) ==
    /\ \A i \in 1..Len(w) : IsLiteral(w[i]) \/ w[i] = "|"
    /\ \A x \in Split(w) : IsWord(x)

IsGroupOfAlternation(p) ==
    /\ Len(p) >= 3 /\ p[1] = "(" /\ p[Len(p)] = ")"
    /\ IsAlternation(SubSeq(p, 2, Len(p) - 1))

GroupBody(p) == SubSeq(p, 2, Len(p) - 1)

----------------------------------------------------------------------------
(* The language a well-formed pattern denotes *)

Depth(p, k) ==
    Cardinality({i \in 1..k : p[i] = "("}) - Cardinality({i \in 1..k : p[i] = ")"})

Balanced(p) == Depth(p, Len(p)) = 0 /\ \A k \in 1..Len(p) : Depth(p, k) >= 0

\* supported characters only, balanced parentheses, no empty alternative or group
WellFormed(p) ==
    /\ Len(p) >= 1
    /\ \A i \in 1..Len(p) : p[i] \notin Unsupported
    /\ Balanced(p)
    /\ p[1] # "|" /\ p[Len(p)] # "|"
    /\ \A i \in 1..(Len(p) - 1) :
          /\ ~(p[i] \in {"(", "|"} /\ p[i + 1] \in {"|", ")"})

RECURSIVE ParseAlt(_, _), ParseCat(_, _), ParseAtom(_, _)
ParseAtom(p, i) ==
    IF p[i] = "("
    THEN LET r == ParseAlt(p, i + 1) IN [lang |-> r.lang, pos |-> r.pos + 1]
    ELSE [lang |-> {<<p[i]>>}, pos |-> i + 1]

ParseCat(p, i) ==
    IF i > Len(p) \/ p[i] \in {"|", ")"}
    THEN [lang |-> {<<>>}, pos |-> i]
    ELSE LET a == ParseAtom(p, i)
             r == ParseCat(p, a.pos)
         IN  [lang |-> {x \o y : x \in a.lang, y \in r.lang}, pos |-> r.pos]

ParseAlt(p, i) ==
    LET c == ParseCat(p, i)
    IN  IF c.pos <= Len(p) /\ p[c.pos] = "|"
        THEN LET r == ParseAlt(p, c.pos + 1)
             IN  [lang |-> c.lang \cup r.lang, pos |-> r.pos]
        ELSE c

Denote(p) == ParseAlt(p, 1).lang

\* some group stands next to another operand: it is followed by something
\* other than a closing ')' or preceded by something other than an opening '('
GroupComposed(p) ==
    \E i \in 1..(Len(p) - 1) :
        \/ p[i] = ")" /\ p[i + 1] # ")"
        \/ p[i + 1] = "(" /\ p[i] # "("

----------------------------------------------------------------------------
(* Claims about the accepted language *)

\* C1: for a non-empty literal-only pattern w the returned NFA accepts
\* exactly w: its language is {w}, and the simulation rejects every proper
\* prefix of w, the empty string included.
C1_LiteralAcceptsExactlyItself ==
    (pc = "done" /\ IsWord(pattern)) =>
        /\ Lang(result) = {pattern}
        /\ Accepts(result, pattern)
        /\ \A s \in ProperPrefixes(pattern) : ~Accepts(result, s)

C1_Witness ==
    pc = "done" /\ IsWord(pattern) /\ Len(pattern) >= 3 /\ Accepts(result, pattern)

\* C2: for w1|...|wk, k >= 2, with non-empty literal alternatives the
\* returned NFA accepts exactly {w1,...,wk}.
C2_AlternationAcceptsExactlyAlternatives ==
    (pc = "done" /\ IsAlternation(pattern) /\ NumBars(pattern) >= 1) =>
        /\ Lang(result) = Split(pattern)
        /\ \A w \in Split(pattern) :
              Accepts(result, w) /\ \A s \in ProperPrefixes(w) :
                                        s \notin Split(pattern) => ~Accepts(result, s)

C2_Witness ==
    /\ pc = "done"
    /\ pattern = <<"a","a","a","a","|","b","b","b","d","|","c","c">>
    /\ Lang(result) = {<<"a","a","a","a">>, <<"b","b","b","d">>, <<"c","c">>}

\* C3: for "(w1|...|wk)" the returned NFA accepts exactly {w1,...,wk}; for
\* k = 1 it has one accepting state and rejects every proper prefix of w1.
C3_GroupAcceptsExactlyAlternatives ==
    (pc = "done" /\ IsGroupOfAlternation(pattern)) =>
        /\ Lang(result) = Split(GroupBody(pattern))
        /\ \A w \in Split(GroupBody(pattern)) : Accepts(result, w)
        /\ NumBars(pattern) = 0 =>
              /\ Cardinality(AcceptingStates(result)) = 1
              /\ \A s \in ProperPrefixes(GroupBody(pattern)) : ~Accepts(result, s)

C3_Witness ==
    /\ pc = "done"
    /\ pattern = <<"(","a","b","|","c","d",")">>
    /\ Lang(result) = {<<"a","b">>, <<"c","d">>}

\* C4: for a well-formed pattern in which a group is composed with another
\* operand, the returned NFA accepts exactly the language the pattern denotes.
C4_ComposedGroupAcceptsDenotation ==
    (pc = "done" /\ WellFormed(pattern) /\ GroupComposed(pattern)) =>
        Lang(result) = Denote(pattern)

----------------------------------------------------------------------------
(* Claims about malformed and unsupported patterns.  The build has two     *)
(* outcomes: pc = "done" (an NFA was returned) and pc = "abort" (an unwrap *)
(* on None panicked); the code has no error value to return.               *)

Terminated == pc \in {"done", "abort"}

\* some '(' is never closed, and no ')' comes without an open '('
HasUnclosedParen(p) == Depth(p, Len(p)) > 0 /\ \A k \in 1..Len(p) : Depth(p, k) >= 0

HasUnsupported(p) == \E i \in 1..Len(p) : p[i] \in Unsupported

CharLabels(nfa) ==
    UNION { { heap[nfa.states[i]].transitions[j][1][2] :
                j \in {k \in 1..Len(heap[nfa.states[i]].transitions) :
                          heap[nfa.states[i]].transitions[k][1] # Epsilon} }
            : i \in 1..Len(nfa.states) }

\* C6: a pattern with a '(' that is never closed ends in a syntax error:
\* the build neither aborts nor returns an NFA, and no build that returns
\* leaves an open-group marker on the operator stack.
C6_UnclosedParenIsSyntaxError ==
    /\ HasUnclosedParen(pattern) => ~Terminated
    /\ pc = "done" => symbol_stack = <<>>

\* C7: a take from an empty operator or operand stack ends in a syntax
\* error outcome; the build never aborts.
C7_UnderflowNeverAborts == pc # "abort"

\* C8: a pattern with a character of unsupported syntax ends in an
\* unsupported-construct error: no NFA is returned for it, and no returned
\* NFA has such a character as the label of a Char transition.
C8_UnsupportedIsRejected ==
    /\ HasUnsupported(pattern) => pc # "done"
    /\ pc = "done" => CharLabels(result) \cap Unsupported = {}

\* C9: a pattern with a leading or trailing '|' ends in a syntax error and
\* returns no NFA.
C9_LeadingTrailingOrIsSyntaxError ==
    (Len(pattern) >= 1 /\ (pattern[1] = "|" \/ pattern[Len(pattern)] = "|")) =>
        pc # "done"

----------------------------------------------------------------------------
(* Reachability *)

AllTargets(h, q) == {h[q].transitions[i][2] : i \in 1..Len(h[q].transitions)}

RECURSIVE ReachableFrom(_, _)
ReachableFrom(h, S) ==
    LET T == S \cup UNION {AllTargets(h, q) : q \in S}
    IN  IF T = S THEN S ELSE ReachableFrom(h, T)

StateSet(nfa) == {nfa.states[i] : i \in 1..Len(nfa.states)}

AllReachable(nfa) == StateSet(nfa) \subseteq ReachableFrom(heap, {nfa.initial})

\* C10: every state of the returned NFA, and of every NFA on the operand
\* stack after each step, is reachable from that NFA's initial state.
C10_EveryStateReachable ==
    /\ \A i \in 1..Len(nfa_stack) : AllReachable(nfa_stack[i])
    /\ pc = "done" => AllReachable(result)

C10_Witness ==
    /\ pc = "done"
    /\ IsAlternation(pattern) /\ NumBars(pattern) >= 2
    /\ Len(result.states) >= 8
    /\ AcceptingStates(result) # {}
    /\ AllReachable(result)

----------------------------------------------------------------------------
(* IDAllocator::next called from several threads (one call per State::new) *)

CallsOf(t) == Cardinality({i \in 1..Len(order) : order[i].thread = t})

LockFree_Ignored == TRUE

\* Mutex::lock succeeds only while no thread holds the guard
LockFree == lock = 0

\* let mut inner = self.inner.lock().unwrap();
Lock(t) ==
    /\ tpc[t] = "idle"
    /\ CallsOf(t) < MaxCalls
    /\ LockFree
    /\ lock' = t
    /\ tpc' = [tpc EXCEPT ![t] = "locked"]
    /\ order' = Append(order, [thread |-> t, id |-> -1])
    /\ UNCHANGED <<tid, owned, next_id>>
    /\ UNCHANGED buildVars
    /\ UNCHANGED pairVars

\* let id = inner.next_id;
ReadId(t) ==
    /\ tpc[t] = "locked"
    /\ tid' = [tid EXCEPT ![t] = next_id]
    /\ tpc' = [tpc EXCEPT ![t] = "read"]
    /\ UNCHANGED <<lock, owned, order, next_id>>
    /\ UNCHANGED buildVars
    /\ UNCHANGED pairVars

\* inner.next_id += 1;
Increment(t) ==
    /\ tpc[t] = "read"
    /\ next_id' = next_id + 1
    /\ tpc' = [tpc EXCEPT ![t] = "incremented"]
    /\ UNCHANGED <<lock, tid, owned, order>>
    /\ UNCHANGED buildVars
    /\ UNCHANGED pairVars

\* position in `order` of the call thread t has in progress
Pending(t) == CHOOSE i \in 1..Len(order) : order[i].thread = t /\ order[i].id = -1

\* id is returned and the guard is dropped
ReturnId(t) ==
    /\ tpc[t] = "incremented"
    /\ lock' = IF lock = t THEN 0 ELSE lock
    /\ order' = [order EXCEPT ![Pending(t)].id = tid[t]]
    /\ tpc' = [tpc EXCEPT ![t] = "returned"]
    /\ UNCHANGED <<tid, owned, next_id>>
    /\ UNCHANGED buildVars
    /\ UNCHANGED pairVars

\* State::new builds the State around the id, outside the lock
UseId(t) ==
    /\ tpc[t] = "returned"
    /\ owned' = [owned EXCEPT ![t] = @ \cup {tid[t]}]
    /\ tpc' = [tpc EXCEPT ![t] = "idle"]
    /\ UNCHANGED <<lock, tid, order, next_id>>
    /\ UNCHANGED buildVars
    /\ UNCHANGED pairVars

InitIds == Init /\ pattern = <<>>

NextIds ==
    \/ \E t \in Threads : Lock(t)
    \/ \E t \in Threads : ReadId(t)
    \/ \E t \in Threads : Increment(t)
    \/ \E t \in Threads : ReturnId(t)
    \/ \E t \in Threads : UseId(t)

SpecIds == InitIds /\ [][NextIds]_vars

Returned == {i \in 1..Len(order) : order[i].id # -1}

\* C5: no two calls of IDAllocator::next return the same id, the ids
\* returned increase strictly in the order the calls took the lock, and the
\* ids received by different threads are disjoint.
C5_IdsUniqueAndIncreasing ==
    /\ \A i, j \in Returned : i < j => order[i].id < order[j].id
    /\ \A t, u \in Threads : t # u => owned[t] \cap owned[u] = {}
    /\ \A t \in Threads : tpc[t] = "returned" =>
          \A u \in Threads : tid[t] \notin owned[u]

C5_Witness ==
    /\ \A t \in Threads : Cardinality(owned[t]) >= 2
    /\ \E i, j \in Returned : i < j /\ order[i].thread # order[j].thread
    /\ \E t, u \in Threads : tpc[t] = "returned" /\ tpc[u] = "read"

----------------------------------------------------------------------------
(* Tails *)

HasEpsilonOut(q) ==
    \E i \in 1..Len(heap[q].transitions) : heap[q].transitions[i][1] = Epsilon

LiveNFAs == {nfa_stack[i] : i \in 1..Len(nfa_stack)} \cup
            (IF pc = "done" THEN {result} ELSE {})

\* C11: at every step and in the finished NFA a state used as a tail (one
\* with an Epsilon transition to a later-built part) is not accepting, and
\* no accepting state of a finished NFA has an outgoing transition.
C11_TailsAreNotAccepting ==
    /\ \A nfa \in LiveNFAs : \A q \in StateSet(nfa) :
          HasEpsilonOut(q) => ~heap[q].accepting
    /\ pc = "done" => \A q \in AcceptingStates(result) : heap[q].transitions = <<>>

----------------------------------------------------------------------------
(* The combinators on two built NFAs: self and other are each built by     *)
(* new_from_token, one call after the other, then combined.                *)

MaxSelfLen == 3
MaxOtherLen == 2

PairAlphabet == {"a", "|", "(", ")"}

SelfPatterns == UNION {[1..k -> PairAlphabet] : k \in 0..MaxSelfLen}
OtherPatterns == UNION {[1..k -> PairAlphabet] : k \in 0..MaxOtherLen}

InitPair ==
    /\ pattern \in SelfPatterns
    /\ other_value \in OtherPatterns
    /\ token = Wrap(pattern)
    /\ idx = 0
    /\ symbol_stack = <<>>
    /\ nfa_stack = <<>>
    /\ heap = <<>>
    /\ next_id = 0
    /\ pc = "scan"
    /\ result = NoNFA
    /\ lock = 0
    /\ tpc = [t \in Threads |-> "idle"]
    /\ tid = [t \in Threads |-> -1]
    /\ owned = [t \in Threads |-> {}]
    /\ order = <<>>
    /\ reductions = 0
    /\ self_nfa = NoNFA
    /\ phase = "self"
    /\ combined = NoNFA

\* the first call has returned self; the second call starts with fresh
\* locals, the allocator and the states already built stay
BuildOther ==
    /\ phase = "self" /\ pc = "done"
    /\ self_nfa' = result
    /\ pattern' = other_value
    /\ token' = Wrap(other_value)
    /\ idx' = 0
    /\ symbol_stack' = <<>>
    /\ nfa_stack' = <<>>
    /\ pc' = "scan"
    /\ result' = NoNFA
    /\ reductions' = 0
    /\ phase' = "other"
    /\ UNCHANGED <<heap, next_id, other_value, combined>>
    /\ UNCHANGED threadVars

\* self.connect_other(other)
ConnectStep ==
    /\ phase = "other" /\ pc = "done"
    /\ LET r == ConnectOther(self_nfa, result, heap)
       IN  /\ combined' = r.nfa
           /\ heap' = r.heap
    /\ phase' = "connected"
    /\ UNCHANGED <<pattern, token, idx, symbol_stack, nfa_stack, next_id, pc, result,
                   reductions, self_nfa, other_value>>
    /\ UNCHANGED threadVars

\* self.merge_other(other)
MergeStep ==
    /\ phase = "other" /\ pc = "done"
    /\ LET m == MergeOther(self_nfa, result, heap, next_id)
       IN  /\ combined' = m.nfa
           /\ heap' = m.heap
           /\ next_id' = m.next
    /\ phase' = "merged"
    /\ UNCHANGED <<pattern, token, idx, symbol_stack, nfa_stack, pc, result,
                   reductions, self_nfa, other_value>>
    /\ UNCHANGED threadVars

NextPair ==
    \/ ScanLeftParen
    \/ ScanOr
    \/ CloseAbort
    \/ HandleSymbol
    \/ CloseGroup
    \/ ScanLiteral
    \/ Return
    \/ BuildOther
    \/ ConnectStep
    \/ MergeStep

SpecPair == InitPair /\ [][NextPair]_vars

\* C12: after self.connect_other(other) every old state of self is
\* non-accepting; each state of self that was accepting has gained exactly
\* one Epsilon transition, to other's initial state, and no other state of
\* self has gained one; self's initial state is unchanged; self's collection
\* is its old one followed by other's states; other's states are unchanged.
C12_ConnectOtherEffect ==
    [][ConnectStep =>
        /\ \A q \in StateSet(self_nfa) :
              /\ ~heap'[q].accepting
              /\ heap'[q].transitions =
                    IF heap[q].accepting
                    THEN Append(heap[q].transitions, <<Epsilon, result.initial>>)
                    ELSE heap[q].transitions
        /\ combined'.initial = self_nfa.initial
        /\ combined'.states = self_nfa.states \o result.states
        /\ \A q \in StateSet(result) : heap'[q] = heap[q]
        /\ DOMAIN heap' = DOMAIN heap
      ]_vars

C12_Witness ==
    /\ phase = "connected"
    /\ Len(result.states) >= 3
    /\ Cardinality({q \in StateSet(self_nfa) :
                      /\ heap[q].transitions # <<>>
                      /\ Top(heap[q].transitions) = <<Epsilon, result.initial>>}) >= 2
    /\ AcceptingStates(result) # {}

\* C13: after self.merge_other(other) exactly one state has been created;
\* it is non-accepting, has exactly two transitions, both Epsilon, to self's
\* former initial state and to other's initial state, and is self's new
\* initial state; self's collection is its old states, the new state and
\* other's states; no state that existed before has changed.
C13_MergeOtherEffect ==
    [][MergeStep =>
        /\ next_id' = next_id + 1
        /\ DOMAIN heap' = DOMAIN heap \cup {next_id}
        /\ next_id \notin DOMAIN heap
        /\ heap'[next_id] =
              [transitions |-> << <<Epsilon, self_nfa.initial>>,
                                  <<Epsilon, result.initial>> >>,
               accepting |-> FALSE]
        /\ combined'.initial = next_id
        /\ combined'.states = self_nfa.states \o <<next_id>> \o result.states
        /\ Len(combined'.states) = Len(self_nfa.states) + 1 + Len(result.states)
        /\ \A q \in DOMAIN heap : heap'[q] = heap[q]
      ]_vars

C13_Witness ==
    /\ phase = "merged"
    /\ Len(self_nfa.states) >= 3 /\ Len(result.states) >= 3
    /\ combined.initial \notin StateSet(self_nfa) \cup StateSet(result)
    /\ Len(heap[combined.initial].transitions) = 2
    /\ Len(combined.states) = Len(self_nfa.states) + 1 + Len(result.states)

----------------------------------------------------------------------------
(* The stacks at the return and the effect of one literal *)

\* C14: when the final ')' of the wrapped pattern has been processed the
\* operand stack holds exactly one NFA and the operator stack is empty, so
\* the return discards no operand.
C14_OneOperandAtReturn ==
    /\ (pc = "scan" /\ idx = Len(token)) =>
          Len(nfa_stack) = 1 /\ symbol_stack = <<>>
    /\ pc = "done" => nfa_stack = <<>> /\ symbol_stack = <<>>

\* C15: a literal step changes only the operand on top: it appends state1
\* and state2 to it, adds Epsilon from the last state of its collection to
\* state1 and Char(c) from state1 to state2, and state2 is accepting iff the
\* next character is '|' or ')'; nothing else changes.
C15_LiteralStepEffect ==
    [][(ScanLiteral /\ pc' = "scan") =>
        LET top  == Top(nfa_stack)
            last == Top(top.states)
            s1   == next_id
            s2   == next_id + 1
        IN  /\ Len(nfa_stack') = Len(nfa_stack)
            /\ \A i \in 1..(Len(nfa_stack) - 1) :
                  nfa_stack'[i] = nfa_stack[i] /\ last \notin StateSet(nfa_stack[i])
            /\ Top(nfa_stack') = [states |-> top.states \o <<s1, s2>>,
                                  initial |-> top.initial]
            /\ symbol_stack' = symbol_stack
            /\ Len(top.states) = 1 => last = top.initial
            /\ DOMAIN heap' = DOMAIN heap \cup {s1, s2}
            /\ {s1, s2} \cap DOMAIN heap = {}
            /\ \A q \in DOMAIN heap \ {last} : heap'[q] = heap[q]
            /\ heap'[last] = [heap[last] EXCEPT !.transitions = Append(@, <<Epsilon, s1>>)]
            /\ heap'[s1] = [transitions |-> << <<Char(Nth(token, idx)), s2>> >>,
                            accepting |-> FALSE]
            /\ heap'[s2] = [transitions |-> <<>>,
                            accepting |-> Nth(token, idx + 1) \in {"|", ")"}]
      ]_vars

\* the 'c' of "(a|b)c" has been processed on top of the merged operand
C15_Witness ==
    /\ pattern = <<"(","a","|","b",")","c">>
    /\ pc = "scan" /\ idx = 7
    /\ Len(Top(nfa_stack).states) = 9
    /\ LET st == Top(nfa_stack).states
       IN  /\ heap[st[8]].transitions = << <<Char("c"), st[9]>> >>
           /\ Top(heap[st[7]].transitions) = <<Epsilon, st[8]>>
           /\ st[7] # Top(nfa_stack).initial

----------------------------------------------------------------------------
(* Termination, the stack discipline and the points of failure *)

\* C16: every build reaches its return or its abort; each iteration of the
\* reduction loop shrinks the operator stack; the number of merge_other
\* calls never exceeds the number of '|' characters of the pattern.
C16_BuildTerminates ==
    /\ <>Terminated
    /\ [][HandleSymbol => Len(symbol_stack') < Len(symbol_stack)]_vars
    /\ [](reductions <= NumBars(pattern))

C16_Witness ==
    pc = "done" /\ reductions = NumBars(pattern) /\ reductions >= 2

ClosedSoFar == Cardinality({i \in 1..idx : token[i] = ")"})

\* C17: until the return, the operand stack is as long as the operator
\* stack plus the number of ')' fully processed, and handle_symbol only
\* ever runs with an Or marker on top.
C17_StackLengths ==
    /\ [](pc # "done" => Len(nfa_stack) = Len(symbol_stack) + ClosedSoFar)
    /\ [][HandleSymbol => Top(symbol_stack) = Or /\ Len(nfa_stack) >= 2]_vars

C17_Witness ==
    /\ pc = "scan"
    /\ ClosedSoFar >= 2
    /\ Len(symbol_stack) >= 1
    /\ reductions >= 1
    /\ Len(nfa_stack) = Len(symbol_stack) + ClosedSoFar

\* some prefix of the pattern has more ')' than '('
SurplusClose(p) == \E k \in 1..Len(p) : Depth(p, k) < 0

AtEmptyOperatorStack == AtChar /\ Nth(token, idx) = ")" /\ symbol_stack = <<>>

\* C18 as stated: the build aborts if and only if some prefix of the
\* user's pattern has more ')' than '(', and returns an NFA otherwise.
C18_AbortIffSurplusInPattern ==
    Terminated => (pc = "abort" <=> SurplusClose(pattern))

\* C18, amended: no operand-stack pop, states.last_mut() or lookahead ever
\* fails; the build aborts only at symbol_stack.last() on an empty operator
\* stack, exactly when some prefix of the wrapped text "(" + pattern + ")"
\* has more ')' than '(', and returns an NFA for every other pattern.
C18_OnlyAbortIsSurplusClose ==
    /\ [](/\ \A i \in 1..Len(nfa_stack) : nfa_stack[i].states # <<>>
          /\ (AtChar /\ Nth(token, idx) \notin {"(", ")", "|"}) =>
                nfa_stack # <<>> /\ idx + 1 < Len(token)
          /\ (AtChar /\ Nth(token, idx) = ")" /\ symbol_stack # <<>>
                /\ Top(symbol_stack) # LeftParen) => Len(nfa_stack) >= 2
          /\ (pc = "scan" /\ idx = Len(token)) => nfa_stack # <<>>)
    /\ [][(pc # "abort" /\ pc' = "abort") => AtEmptyOperatorStack]_vars
    /\ [](pc = "abort" => SurplusClose(token))
    /\ [](pc = "done" => ~SurplusClose(token) /\ result # NoNFA)
    /\ <>Terminated

C18_Witness ==
    /\ pc = "abort" /\ Nth(token, idx) = ")" /\ symbol_stack = <<>>
    /\ SurplusClose(token) /\ Len(pattern) >= 3 /\ idx >= 3

\* C19: in every operand and every returned NFA the initial state is not
\* accepting and every transition into an accepting state is a Char
\* transition; no returned NFA accepts the empty string.
C19_EmptyStringNeverAccepted ==
    /\ \A nfa \in LiveNFAs :
          /\ ~heap[nfa.initial].accepting
          /\ \A q \in StateSet(nfa) : \A i \in 1..Len(heap[q].transitions) :
                heap[heap[q].transitions[i][2]].accepting =>
                    heap[q].transitions[i][1] # Epsilon
    /\ pc = "done" => ~Accepts(result, <<>>) /\ <<>> \notin Lang(result)

C19_Witness ==
    /\ pc = "done"
    /\ pattern = <<"a","|","|","b">>
    /\ Lang(result) = {<<"a">>, <<"b">>}
    /\ ~Accepts(result, <<>>)

====
